---- MODULE Spec2Model ----
(***************************************************************************)
(* PHY 132 Local Course Hub (src/app.py): the JSON document on disk, the   *)
(* upload directory, the widget state of one browser session and the       *)
(* Streamlit script run main() that every interaction re-executes.         *)
(*                                                                         *)
(* Strings are sequences of one-character strings, Python dicts are        *)
(* records (a missing key is a missing field), Python lists are sequences. *)
(* A JSON text is the sequence of the top-level "key": value chunks that   *)
(* json.dump writes one after the other, closed by the final "}" chunk.    *)
(***************************************************************************)
EXTENDS Integers, Sequences, FiniteSets, TLC

\* ------------------------------------------------------------------------
\* Bounds of the model
\* ------------------------------------------------------------------------
MaxClicks == 2      \* button clicks (instructor handlers) in one behaviour
MaxTime == 1        \* the clock runs over 0..MaxTime (minutes)
MaxSel == 1         \* the selectboxes offer the first MaxSel modules/sections
MaxBatch == 2       \* files selected in one "Add files to section" batch
MaxPages == 2       \* pages of a legacy section

\* ------------------------------------------------------------------------
\* Python values
\* ------------------------------------------------------------------------
None == <<"None">>

Truthy(v) == v # None /\ v # <<>>

Get(d, k, default) == IF k \in DOMAIN d THEN d[k] ELSE default

Put(d, k, v) == [x \in DOMAIN d \cup {k} |-> IF x = k THEN v ELSE d[x]]

Pop(d, k) == [x \in DOMAIN d \ {k} |-> d[x]]

IsDict(v) == "json" \notin DOMAIN v

RECURSIVE LStrip(_)
LStrip(s) == IF s # <<>> /\ Head(s) = " " THEN LStrip(Tail(s)) ELSE s

RECURSIVE RStrip(_)
RStrip(s) ==
  IF s # <<>> /\ s[Len(s)] = " " THEN RStrip(SubSeq(s, 1, Len(s) - 1)) ELSE s

Strip(s) == RStrip(LStrip(s))

\* ------------------------------------------------------------------------
\* Config
\* ------------------------------------------------------------------------
DEFAULT_EDIT_PASSCODE == <<"e", "k", "u">>

DEFAULT_DB ==
  [course |-> [name |-> <<"P", "H", "Y">>,
               instructor |-> <<"Z">>,
               updated_at |-> None],
   modules |-> [i \in 1..5 |->
                  [id |-> <<"M", i - 1>>,
                   title |-> <<"M", "o", "d">>,
                   sections |-> <<>>]],
   version |-> 2]

timestamp(clock) == <<"t", clock>>

new_id(prefix, n) == <<prefix, "-", n>>

\* ------------------------------------------------------------------------
\* JSON text: json.dump / json.load
\* ------------------------------------------------------------------------
KeyOrder == <<"course", "modules", "version">>

\* variant: the version key is left out of the dump
json_dump_NoVersion(d) ==
  LET keys == <<"course", "modules">>
      present == SelectSeq(keys, LAMBDA k : k \in DOMAIN d)
  IN  [i \in 1..Len(present) |-> [k |-> present[i], v |-> d[present[i]]]]
        \o <<[k |-> "}"]>>

json_dump(d) ==
  LET present == SelectSeq(KeyOrder, LAMBDA k : k \in DOMAIN d)
  IN  [i \in 1..Len(present) |-> [k |-> present[i], v |-> d[present[i]]]]
        \o <<[k |-> "}"]>>

json_valid(text) ==
  /\ Len(text) >= 1
  /\ text[Len(text)].k = "}"
  /\ \A i \in 1..(Len(text) - 1) : text[i].k \notin {"}", "junk"}

json_load(text) ==
  LET n == Len(text) - 1
  IN  [key \in {text[i].k : i \in 1..n} |->
         text[CHOOSE i \in 1..n : text[i].k = key].v]

\* ------------------------------------------------------------------------
\* Data structure utilities
\* ------------------------------------------------------------------------
add_module(d, title, n) ==
  [d EXCEPT !.modules =
     Append(@, [id |-> new_id("M", n), title |-> Strip(title),
                sections |-> <<>>])]

add_section(module, title, n) ==
  [module EXCEPT !.sections =
     Append(@, [id |-> new_id("S", n), title |-> Strip(title),
                notes |-> <<>>, files |-> <<>>])]

delete_module(d, module_id) ==
  [d EXCEPT !.modules = SelectSeq(@, LAMBDA m : m.id # module_id)]

delete_section(module, section_id) ==
  [module EXCEPT !.sections = SelectSeq(@, LAMBDA s : s.id # section_id)]

\* ------------------------------------------------------------------------
\* File handling (hash + de-dup).  Bytes are the characters "x" and "y";
\* the digest is a polynomial hash, injective on the byte strings used.
\* ------------------------------------------------------------------------
ord(b) == IF b = "x" THEN 120 ELSE 121

RECURSIVE digest(_, _)
digest(h, data) ==
  IF data = <<>> THEN h
  ELSE digest((h * 31 + ord(Head(data))) % 65521, Tail(data))

file_sha256(data) == <<"sha", digest(7, data)>>

\* variant: only the most recent record is compared
HasHash_LastOnly(files, fhash) ==
  files # <<>> /\ Get(files[Len(files)], "hash", None) = fhash

HasHash(files, fhash) ==
  \E i \in 1..Len(files) : Get(files[i], "hash", None) = fhash

\* save_upload_to_section: returns the section, the upload directory, the
\* outcome and whether a uuid was drawn.
save_upload_to_section(section, upload, disk, clock, n) ==
  LET data == upload.data
      fhash == file_sha256(data)
      dest == <<"uploads", section.id, n>>
      meta == [name |-> upload.name, path |-> dest, size |-> Len(data),
               uploaded_at |-> timestamp(clock), hash |-> fhash]
  IN  IF HasHash(Get(section, "files", <<>>), fhash)
      THEN [section |-> section, disk |-> disk, status |-> "duplicate",
            wrote |-> FALSE]
      ELSE [section |-> [section EXCEPT !.files = Append(@, meta)],
            disk |-> Put(disk, dest, data),
            status |-> "saved", wrote |-> TRUE]

\* ------------------------------------------------------------------------
\* Migration (legacy pages -> section notes + files)
\* ------------------------------------------------------------------------
\* one legacy file record f of a page, lines 130-143
MigrateFile(acc, f, disk) ==
  LET h0 == Get(f, "hash", None)
      path == Get(f, "path", None)
      fhash == IF ~Truthy(h0) /\ Truthy(path) /\ path \in DOMAIN disk
               THEN IF disk[path] = None THEN None
                    ELSE file_sha256(disk[path])
               ELSE h0
  IN  IF Truthy(fhash) /\ HasHash(acc.s.files, fhash)
      THEN acc
      ELSE [s |-> [acc.s EXCEPT !.files = Append(@, Put(f, "hash", fhash))],
            changed |-> TRUE]

RECURSIVE MigrateFiles(_, _, _)
MigrateFiles(acc, fs, disk) ==
  IF fs = <<>> THEN acc
  ELSE MigrateFiles(MigrateFile(acc, Head(fs), disk), Tail(fs), disk)

\* one legacy page p, lines 121-143
MigratePage(acc, p, disk) ==
  LET ptitle == Get(p, "title", <<"U", "n", "t", "i", "t", "l", "e", "d">>)
      pcontent == Get(p, "content", <<>>)
      acc1 == IF Truthy(pcontent)
              THEN [s |-> [acc.s EXCEPT !.notes =
                             @ \o <<"\n", "\n", "#", "#", "#", " ">> \o ptitle
                               \o <<"\n", "\n">> \o pcontent \o <<"\n">>],
                    changed |-> TRUE]
              ELSE acc
      pfiles == Get(p, "files", <<>>)
  IN  MigrateFiles(acc1, pfiles, disk)

RECURSIVE MigratePages(_, _, _)
MigratePages(acc, ps, disk) ==
  IF ps = <<>> THEN acc
  ELSE MigratePages(MigratePage(acc, Head(ps), disk), Tail(ps), disk)

\* variant: the legacy field is never dropped
MigrateSection_KeepsPages(s, disk) ==
  LET s1 == IF "files" \notin DOMAIN s THEN Put(s, "files", <<>>) ELSE s
      s2 == IF "notes" \notin DOMAIN s1 THEN Put(s1, "notes", <<>>) ELSE s1
      c2 == "files" \notin DOMAIN s \/ "notes" \notin DOMAIN s
      pages == Get(s2, "pages", <<>>)
  IN  IF pages = <<>>
      THEN [s |-> s2, changed |-> c2]
      ELSE [s |-> MigratePages([s |-> s2, changed |-> c2], pages, disk).s,
            changed |-> TRUE]

\* the body of the loop over sections, lines 110-148
MigrateSection(s, disk) ==
  LET s1 == IF "files" \notin DOMAIN s THEN Put(s, "files", <<>>) ELSE s
      s2 == IF "notes" \notin DOMAIN s1 THEN Put(s1, "notes", <<>>) ELSE s1
      c2 == "files" \notin DOMAIN s \/ "notes" \notin DOMAIN s
      pages == Get(s2, "pages", <<>>)
  IN  IF pages = <<>>
      THEN [s |-> s2, changed |-> c2]
      ELSE [s |-> Pop(MigratePages([s |-> s2, changed |-> c2], pages, disk).s,
                      "pages"),
            changed |-> TRUE]

migrate_pages_to_section_files(d, disk) ==
  LET mods == Get(d, "modules", <<>>)
      secs(m) == Get(m, "sections", <<>>)
      mig(m) == IF "sections" \in DOMAIN m
                THEN [m EXCEPT !.sections =
                        [j \in 1..Len(@) |-> MigrateSection(@[j], disk).s]]
                ELSE m
  IN  [db |-> IF "modules" \in DOMAIN d
              THEN [d EXCEPT !.modules = [i \in 1..Len(@) |-> mig(@[i])]]
              ELSE d,
       changed |-> \E i \in 1..Len(mods) : \E j \in 1..Len(secs(mods[i])) :
                     MigrateSection(secs(mods[i])[j], disk).changed]

\* ------------------------------------------------------------------------
\* State
\* ------------------------------------------------------------------------
VARIABLES
  file,              \* DB_PATH: [exists, text]
  uploads,           \* UPLOAD_DIR: storage path -> bytes
  db,                \* the document of the running script (NoDb when idle)
  newdb,             \* the parsed backup being imported (NoDb otherwise)
  pc,                \* position of the script run
  ret,               \* where the run continues after the save in progress
  mode,              \* sidebar radio
  pwd,               \* sidebar passcode input
  restore_uploader,  \* index in Backups of the file held by the uploader, 0 = none
  clicked,           \* the run was triggered by a button of edit_tools
  msg,               \* message reported by sidebar_backup_restore
  load_raised,       \* load_db of the last run raised
  now,               \* wall clock, in minutes
  uuid,              \* number of uuid4 values drawn
  clicks,            \* button clicks so far
  hist,              \* the save in progress: argument, time, file before it
  ev,                \* the edit_tools handler of this run and its inputs
  edited             \* history: DB_PATH as the last edit_tools save left it

vars == <<file, uploads, db, newdb, pc, ret, mode, pwd, restore_uploader,
          clicked, msg, load_raised, now, uuid, clicks, hist, ev, edited>>

NoDb == [none |-> TRUE]
NoHist == [active |-> FALSE]
\* no edit_tools save stands: none was made, or a backup was submitted since
NoEdited == [exists |-> FALSE, text |-> <<>>]
NoEv == [op |-> "none"]

Student == "Student (read-only)"
Instructor == "Instructor (edit mode)"
Passcodes == {<<>>, <<"x">>, DEFAULT_EDIT_PASSCODE}

Min(a, b) == IF a < b THEN a ELSE b

\* sidebar_mode: the second component of its result
can_edit == mode = Instructor /\ pwd = DEFAULT_EDIT_PASSCODE

\* ------------------------------------------------------------------------
\* Worlds the process can start in, and backups a user can pick
\* ------------------------------------------------------------------------
OldPath(n) == <<"uploads", <<"old">>, n>>

FileX == [name |-> <<"a">>, path |-> OldPath(1), size |-> 1,
          uploaded_at |-> timestamp(0), hash |-> file_sha256(<<"x">>)]

\* a record whose file is no longer in the upload directory
FileGone == [name |-> <<"g">>, path |-> OldPath(2), size |-> 2,
             uploaded_at |-> timestamp(0), hash |-> file_sha256(<<"x", "x">>)]

DocV2 ==
  [course |-> [name |-> <<"P", "H", "Y">>, instructor |-> <<"Z">>,
               updated_at |-> timestamp(0)],
   modules |-> <<[id |-> <<"M", 0>>, title |-> <<"M", "o", "d">>,
                  sections |-> <<[id |-> <<"S", 0>>, title |-> <<"S">>,
                                  notes |-> <<>>,
                                  files |-> <<FileX, FileGone>>]>>]>>,
   version |-> 2]

DocLegacy ==
  [course |-> [name |-> <<"P", "H", "Y">>, instructor |-> <<"Z">>,
               updated_at |-> timestamp(0)],
   modules |-> <<[id |-> <<"M", 0>>, title |-> <<"M", "o", "d">>,
                  sections |->
                    <<[id |-> <<"S", 0>>, title |-> <<"S">>,
                       pages |-> <<[title |-> <<"p">>, content |-> <<"c">>,
                                    files |-> <<[name |-> <<"a">>,
                                                 path |-> OldPath(1)]>>]>>]>>]>>,
   version |-> 1]

OnDisk(text) == [exists |-> TRUE, text |-> text]

Worlds ==
  << [file |-> [exists |-> FALSE, text |-> <<>>],
      uploads |-> [x \in {} |-> <<>>]],
     [file |-> OnDisk(json_dump(DocV2)),
      uploads |-> [x \in {OldPath(1)} |-> <<"x">>]],
     [file |-> OnDisk(json_dump(DocLegacy)),
      uploads |-> [x \in {OldPath(1)} |-> <<"x">>]] >>

DocBackup ==
  [course |-> [name |-> <<"B">>, instructor |-> <<"Z">>,
               updated_at |-> None],
   modules |-> <<[id |-> <<"M", 9>>, title |-> <<"B", "k">>,
                  sections |-> <<>>]>>,
   version |-> 2]

Backups ==
  << <<[k |-> "junk"]>>,
     json_dump([course |-> DocBackup.course]),
     json_dump([modules |-> DocBackup.modules]),
     json_dump([course |-> [json |-> "string"], modules |-> <<>>]),
     json_dump(DocBackup) >>

\* ------------------------------------------------------------------------
\* Init
\* ------------------------------------------------------------------------
\* a session at rest in world w with the given sidebar widgets
Rest0(w, m, p) ==
  /\ file = w.file
  /\ uploads = w.uploads
  /\ db = NoDb
  /\ newdb = NoDb
  /\ pc = "idle"
  /\ ret = "idle"
  /\ mode = m
  /\ pwd = p
  /\ restore_uploader = 0
  /\ clicked = FALSE
  /\ msg = "none"
  /\ load_raised = FALSE
  /\ now = 0
  /\ uuid = 0
  /\ clicks = 0
  /\ hist = NoHist
  /\ ev = NoEv
  /\ edited = NoEdited

\* a fresh browser session: sidebar_mode's radio has index=0
Init == \E w \in 1..Len(Worlds) : Rest0(Worlds[w], Student, <<>>)

\* ------------------------------------------------------------------------
\* Helpers (DB I/O)
\* ------------------------------------------------------------------------
\* save_db, line 56: the stamp, made in place on the dict passed in
Stamp(d, clock) ==
  [d EXCEPT !.course = Put(@, "updated_at", timestamp(clock))]

\* load_db: the document returned, whether it raised, whether it saves
load_db(f, clock) ==
  IF ~f.exists
  THEN [raised |-> FALSE, save |-> TRUE, db |-> Stamp(DEFAULT_DB, clock)]
  ELSE IF json_valid(f.text)
       THEN [raised |-> FALSE, save |-> FALSE, db |-> json_load(f.text)]
       ELSE [raised |-> TRUE, save |-> FALSE, db |-> NoDb]

\* the dict save_db was called with: newdb in sidebar_backup_restore
SavingBackup == ret = "tools"
SaveTarget == IF SavingBackup THEN newdb ELSE db

\* ------------------------------------------------------------------------
\* main(): one script run per widget event
\* ------------------------------------------------------------------------
\* lines 479-481: the run starts and loads the document
Run(m, p, u, c) ==
  /\ pc = "idle"
  /\ mode' = m
  /\ pwd' = p
  /\ restore_uploader' = u
  /\ clicked' = c
  /\ msg' = "none"
  /\ LET r == load_db(file, now)
     IN  /\ load_raised' = r.raised
         /\ db' = r.db
         /\ pc' = IF r.raised THEN "idle"
                  ELSE IF r.save THEN "save_open" ELSE "migrate"
         /\ ret' = IF r.save THEN "migrate" ELSE "idle"
  /\ UNCHANGED <<file, uploads, newdb, now, uuid, hist, ev>>

\* a rerun without a widget change: st.rerun(), typing, a new selection
Rerun == Run(mode, pwd, restore_uploader, FALSE) /\ UNCHANGED <<clicks, edited>>

SetMode ==
  \E m \in {Student, Instructor} :
    /\ m # mode
    /\ Run(m, <<>>, restore_uploader, FALSE)
    /\ UNCHANGED <<clicks, edited>>

SetPasscode ==
  \E p \in Passcodes :
    /\ mode = Instructor
    /\ p # pwd
    /\ Run(mode, p, restore_uploader, FALSE)
    /\ UNCHANGED <<clicks, edited>>

ChooseBackup ==
  \E u \in 0..Len(Backups) :
    /\ u # restore_uploader
    /\ Run(mode, pwd, u, FALSE)
    /\ edited' = IF u = 0 THEN edited ELSE NoEdited
    /\ UNCHANGED clicks

Click ==
  /\ can_edit
  /\ clicks < MaxClicks
  /\ clicks' = clicks + 1
  /\ Run(mode, pwd, restore_uploader, TRUE)
  /\ UNCHANGED edited

\* line 483
Migrate ==
  /\ pc = "migrate"
  /\ LET r == migrate_pages_to_section_files(db, uploads)
     IN  /\ db' = r.db
         /\ pc' = IF r.changed THEN "save_open" ELSE "sidebar"
         /\ ret' = IF r.changed THEN "sidebar" ELSE "idle"
  /\ UNCHANGED <<file, uploads, newdb, mode, pwd, restore_uploader, clicked,
                 msg, load_raised, now, uuid, clicks, hist, ev, edited>>

\* variant: one of the two keys is enough
import_backup_EitherKey(u) ==
  IF u = 0 THEN [save |-> FALSE, msg |-> "none", newdb |-> NoDb]
  ELSE IF ~json_valid(Backups[u])
  THEN [save |-> FALSE, msg |-> "failed", newdb |-> NoDb]
  ELSE LET nd == json_load(Backups[u])
       IN  IF "modules" \in DOMAIN nd \/ "course" \in DOMAIN nd
           THEN IF "course" \in DOMAIN nd /\ IsDict(nd.course)
                THEN [save |-> TRUE, msg |-> "none", newdb |-> nd]
                ELSE [save |-> FALSE, msg |-> "failed", newdb |-> NoDb]
           ELSE [save |-> FALSE, msg |-> "invalid", newdb |-> NoDb]

\* sidebar_backup_restore, lines 239-249, up to the call of save_db
import_backup(u) ==
  IF u = 0 THEN [save |-> FALSE, msg |-> "none", newdb |-> NoDb]
  ELSE IF ~json_valid(Backups[u])
  THEN [save |-> FALSE, msg |-> "failed", newdb |-> NoDb]
  ELSE LET nd == json_load(Backups[u])
       IN  IF "modules" \in DOMAIN nd /\ "course" \in DOMAIN nd
           THEN IF IsDict(nd.course)
                THEN [save |-> TRUE, msg |-> "none", newdb |-> nd]
                ELSE [save |-> FALSE, msg |-> "failed", newdb |-> NoDb]
           ELSE [save |-> FALSE, msg |-> "invalid", newdb |-> NoDb]

SidebarBackupRestore ==
  /\ pc = "sidebar"
  /\ LET r == import_backup(restore_uploader)
     IN  /\ newdb' = r.newdb
         /\ msg' = r.msg
         /\ pc' = IF r.save THEN "save_open" ELSE "tools"
         /\ ret' = IF r.save THEN "tools" ELSE "idle"
  /\ UNCHANGED <<file, uploads, db, mode, pwd, restore_uploader, clicked,
                 load_raised, now, uuid, clicks, hist, ev, edited>>

\* ------------------------------------------------------------------------
\* save_db, step by step: stamp and open(DB_PATH, "w"), then json.dump
\* ------------------------------------------------------------------------
SaveOpen ==
  /\ pc = "save_open"
  /\ hist' = [active |-> TRUE, arg |-> SaveTarget, at |-> now, prev |-> file]
  /\ IF SavingBackup
     THEN newdb' = Stamp(newdb, now) /\ db' = db
     ELSE db' = Stamp(db, now) /\ newdb' = newdb
  /\ file' = OnDisk(<<>>)
  /\ pc' = "save_write"
  /\ UNCHANGED <<uploads, ret, mode, pwd, restore_uploader, clicked, msg,
                 load_raised, now, uuid, clicks, ev, edited>>

\* json.dump ran to its end and the with block closed the file
SaveDump ==
  /\ pc = "save_write"
  /\ file' = OnDisk(json_dump(SaveTarget))
  /\ hist' = NoHist
  /\ newdb' = NoDb
  /\ pc' = ret
  /\ ret' = "idle"
  /\ msg' = IF SavingBackup THEN "imported" ELSE msg
  /\ db' = IF ret = "idle" THEN NoDb ELSE db
  /\ ev' = IF ret = "idle" THEN NoEv ELSE ev
  /\ clicked' = IF ret = "idle" THEN FALSE ELSE clicked
  /\ edited' = IF ret = "idle" THEN file' ELSE edited
  /\ UNCHANGED <<uploads, mode, pwd, restore_uploader, load_raised, now, uuid,
                 clicks>>

\* the prefixes a stopped write leaves: nothing flushed yet, or all but the
\* closing chunk
FailPoints(text) == {0, Len(text) - 1}

\* the write stopped after n chunks: an I/O error or the process was killed;
\* the error is caught only by the try of sidebar_backup_restore
SaveFail ==
  /\ pc = "save_write"
  /\ \E n \in FailPoints(json_dump(SaveTarget)) :
       file' = OnDisk(SubSeq(json_dump(SaveTarget), 1, n))
  /\ hist' = NoHist
  /\ newdb' = NoDb
  /\ ret' = "idle"
  /\ \E caught \in (IF SavingBackup THEN BOOLEAN ELSE {FALSE}) :
       IF caught
       THEN /\ pc' = "tools"
            /\ msg' = "failed"
            /\ UNCHANGED <<db, ev, clicked>>
       ELSE /\ pc' = "idle"
            /\ db' = NoDb
            /\ ev' = NoEv
            /\ clicked' = FALSE
            /\ msg' = msg
  /\ UNCHANGED <<uploads, mode, pwd, restore_uploader, load_raised, now, uuid,
                 clicks, edited>>

\* the clock advances; only Run, AddFiles and SaveOpen read it, so it is
\* enough to let it advance in front of them
Tick ==
  /\ now < MaxTime
  /\ pc \in {"idle", "tools", "save_open"}
  /\ now' = now + 1
  /\ UNCHANGED <<file, uploads, db, newdb, pc, ret, mode, pwd,
                 restore_uploader, clicked, msg, load_raised, uuid, clicks,
                 hist, ev, edited>>

\* ------------------------------------------------------------------------
\* Instructor tools: one button per run
\* ------------------------------------------------------------------------
TitleInputs == {<<>>, <<" ">>, <<" ", "a">>}
NoteInputs == {<<"n">>}
Uploads == {[name |-> <<"a">>, data |-> <<"x">>],
            [name |-> <<"b">>, data |-> <<"y">>]}

\* nav_selectors: the indices the two selectboxes offer
ModuleChoices == 1..Min(MaxSel, Len(db.modules))
SectionChoices(mi) == 1..Min(MaxSel, Len(db.modules[mi].sections))

Batches == {<<>>} \cup UNION {[1..n -> Uploads] : n \in 1..MaxBatch}

InTools == pc = "tools" /\ can_edit /\ clicked

ToSave(d, e) ==
  /\ db' = d
  /\ ev' = e
  /\ pc' = "save_open"
  /\ ret' = "idle"
  /\ clicked' = clicked

NoSave ==
  /\ db' = NoDb
  /\ ev' = NoEv
  /\ pc' = "idle"
  /\ ret' = "idle"
  /\ clicked' = FALSE

Rest == <<file, newdb, mode, pwd, restore_uploader, msg, load_raised, now,
          clicks, hist, edited>>

\* line 507, else branch: the tools are not rendered or no button was pressed
EndRun ==
  /\ pc = "tools"
  /\ ~(can_edit /\ clicked)
  /\ NoSave
  /\ UNCHANGED <<Rest, uploads, uuid>>

\* lines 362-367
AddModule ==
  /\ InTools
  /\ \E new_mod \in TitleInputs :
       IF Strip(new_mod) # <<>>
       THEN /\ ToSave(add_module(db, new_mod, uuid + 1),
                      [op |-> "add_module", input |-> new_mod])
            /\ uuid' = uuid + 1
       ELSE NoSave /\ uuid' = uuid
  /\ UNCHANGED <<Rest, uploads>>

\* lines 370-374
RenameModule ==
  /\ InTools
  /\ \E mi \in ModuleChoices, new_title \in TitleInputs :
       LET title == IF Strip(new_title) # <<>> THEN Strip(new_title)
                    ELSE db.modules[mi].title
       IN  ToSave([db EXCEPT !.modules[mi].title = title],
                  [op |-> "rename_module", mi |-> mi, input |-> new_title,
                   before |-> db.modules[mi].title])
  /\ UNCHANGED <<Rest, uploads, uuid>>

\* lines 375-378
DeleteModule ==
  /\ InTools
  /\ \E mi \in ModuleChoices :
       ToSave(delete_module(db, db.modules[mi].id), [op |-> "delete_module"])
  /\ UNCHANGED <<Rest, uploads, uuid>>

\* lines 383-388
AddSection ==
  /\ InTools
  /\ \E mi \in ModuleChoices, new_sec \in TitleInputs :
       IF Strip(new_sec) # <<>>
       THEN /\ ToSave([db EXCEPT !.modules[mi] =
                         add_section(@, new_sec, uuid + 1)],
                      [op |-> "add_section", input |-> new_sec])
            /\ uuid' = uuid + 1
       ELSE NoSave /\ uuid' = uuid
  /\ UNCHANGED <<Rest, uploads>>

\* variant: the stripped input is stored even when it is empty
RenameSection_StoresBlank ==
  /\ InTools
  /\ \E mi \in ModuleChoices :
     \E si \in SectionChoices(mi), sec_title \in TitleInputs :
       ToSave([db EXCEPT !.modules[mi].sections[si].title = Strip(sec_title)],
              [op |-> "rename_section", mi |-> mi, si |-> si,
               input |-> sec_title,
               before |-> db.modules[mi].sections[si].title])
  /\ UNCHANGED <<Rest, uploads, uuid>>

\* lines 390-394
RenameSection ==
  /\ InTools
  /\ \E mi \in ModuleChoices :
     \E si \in SectionChoices(mi), sec_title \in TitleInputs :
       LET title == IF Strip(sec_title) # <<>> THEN Strip(sec_title)
                    ELSE db.modules[mi].sections[si].title
       IN  ToSave([db EXCEPT !.modules[mi].sections[si].title = title],
                  [op |-> "rename_section", mi |-> mi, si |-> si,
                   input |-> sec_title,
                   before |-> db.modules[mi].sections[si].title])
  /\ UNCHANGED <<Rest, uploads, uuid>>

\* lines 395-398
DeleteSection ==
  /\ InTools
  /\ \E mi \in ModuleChoices :
     \E si \in SectionChoices(mi) :
       ToSave([db EXCEPT !.modules[mi] =
                 delete_section(@, @.sections[si].id)],
              [op |-> "delete_section"])
  /\ UNCHANGED <<Rest, uploads, uuid>>

\* lines 402-406
SaveNotes ==
  /\ InTools
  /\ \E mi \in ModuleChoices :
     \E si \in SectionChoices(mi), notes \in NoteInputs :
       ToSave([db EXCEPT !.modules[mi].sections[si] = Put(@, "notes", notes)],
              [op |-> "save_notes"])
  /\ UNCHANGED <<Rest, uploads, uuid>>

\* lines 421-426: the loop over the batch
RECURSIVE StoreAll(_, _, _)
StoreAll(acc, batch, clock) ==
  IF batch = <<>> THEN acc
  ELSE LET r == save_upload_to_section(acc.section, Head(batch), acc.disk,
                                       clock, acc.n + 1)
       IN  StoreAll([section |-> r.section, disk |-> r.disk,
                     n |-> IF r.wrote THEN acc.n + 1 ELSE acc.n,
                     statuses |-> Append(acc.statuses, r.status)],
                    Tail(batch), clock)

\* lines 418-433
AddFiles ==
  /\ InTools
  /\ \E mi \in ModuleChoices :
     \E si \in SectionChoices(mi), batch \in Batches :
       LET section == db.modules[mi].sections[si]
           r == StoreAll([section |-> section, disk |-> uploads, n |-> uuid,
                          statuses |-> <<>>], batch, now)
       IN  IF batch # <<>>
           THEN /\ ToSave([db EXCEPT !.modules[mi].sections[si] = r.section],
                          [op |-> "add_files", mi |-> mi, si |-> si,
                           before |-> section.files, disk |-> uploads,
                           batch |-> batch, statuses |-> r.statuses])
                /\ uploads' = r.disk
                /\ uuid' = r.n
           ELSE NoSave /\ UNCHANGED <<uploads, uuid>>
  /\ UNCHANGED Rest

\* variant: the records after the pressed one are dropped with it
KeepFiles_DropsTail(files, pressed) ==
  [j \in 1..(pressed - 1) |-> files[j]]

\* lines 438-459: the records whose remove button was not pressed
KeepFiles(files, pressed) ==
  LET idx == SelectSeq([i \in 1..Len(files) |-> i], LAMBDA i : i # pressed)
  IN  [j \in 1..Len(idx) |-> files[idx[j]]]

\* lines 436-463
RemoveFile ==
  /\ InTools
  /\ \E mi \in ModuleChoices :
     \E si \in SectionChoices(mi) :
     \E fi \in 1..Len(db.modules[mi].sections[si].files) :
     \E removal \in {"ok", "error"} :
       LET section == db.modules[mi].sections[si]
           path == section.files[fi].path
       IN  /\ ToSave([db EXCEPT !.modules[mi].sections[si].files =
                        KeepFiles(@, fi)],
                     [op |-> "remove_file", mi |-> mi, si |-> si,
                      before |-> section.files, pressed |-> fi,
                      removal |-> IF path \notin DOMAIN uploads THEN "missing"
                                  ELSE removal])
           /\ uploads' = IF path \in DOMAIN uploads /\ removal = "ok"
                         THEN Pop(uploads, path) ELSE uploads
  /\ UNCHANGED <<Rest, uuid>>

\* lines 466-473
SaveCourseInfo ==
  /\ InTools
  /\ \E name \in {<<" ">>, <<"Q">>}, instr \in {<<"I">>} :
       LET c == db.course
           c1 == Put(c, "name", IF Strip(name) # <<>> THEN Strip(name)
                                ELSE c.name)
           c2 == Put(c1, "instructor", IF Strip(instr) # <<>> THEN Strip(instr)
                                       ELSE c.instructor)
       IN  ToSave([db EXCEPT !.course = c2], [op |-> "save_course_info"])
  /\ UNCHANGED <<Rest, uploads, uuid>>

Next ==
  \/ Rerun \/ SetMode \/ SetPasscode \/ ChooseBackup \/ Click
  \/ Migrate \/ SidebarBackupRestore
  \/ SaveOpen \/ SaveDump \/ SaveFail
  \/ EndRun
  \/ AddModule \/ RenameModule \/ DeleteModule
  \/ AddSection \/ RenameSection \/ DeleteSection
  \/ SaveNotes \/ AddFiles \/ RemoveFile \/ SaveCourseInfo
  \/ Tick

Spec == Init /\ [][Next]_vars

TypeOK ==
  /\ pc \in {"idle", "migrate", "sidebar", "tools", "save_open", "save_write"}
  /\ now \in 0..MaxTime
  /\ clicks \in 0..MaxClicks
  /\ restore_uploader \in 0..Len(Backups)
  /\ edited.exists \in BOOLEAN

\* ------------------------------------------------------------------------
\* Sessions in which the instructor has unlocked the tools
\* ------------------------------------------------------------------------
InitEdit ==
  \E w \in 1..Len(Worlds) :
    Rest0(Worlds[w], Instructor, DEFAULT_EDIT_PASSCODE)

\* a student session using the Backup / Restore expander
NextImport ==
  \/ Rerun \/ ChooseBackup
  \/ Migrate \/ SidebarBackupRestore
  \/ SaveOpen \/ SaveDump \/ SaveFail
  \/ EndRun
  \/ Tick

SpecImport == Init /\ [][NextImport]_vars

\* the instructor session: every handler of edit_tools, reruns, failed saves
NextEdit ==
  \/ Click \/ Rerun
  \/ Migrate \/ SidebarBackupRestore
  \/ SaveOpen \/ SaveDump \/ SaveFail
  \/ EndRun
  \/ AddModule \/ RenameModule \/ DeleteModule
  \/ AddSection \/ RenameSection \/ DeleteSection
  \/ SaveNotes \/ AddFiles \/ RemoveFile \/ SaveCourseInfo
  \/ Tick

SpecEdit == InitEdit /\ [][NextEdit]_vars

\* ------------------------------------------------------------------------
\* Legacy documents: one section with a page list, in every shape the
\* migration distinguishes
\* ------------------------------------------------------------------------
LegacyFiles ==
  { [name |-> <<"a">>, path |-> OldPath(1), hash |-> file_sha256(<<"x">>)],
    [name |-> <<"a">>, path |-> OldPath(1)],
    [name |-> <<"b">>, path |-> OldPath(3)],
    [name |-> <<"c">>, path |-> OldPath(4)] }

LegacyPages ==
  { [title |-> <<"p">>, content |-> c, files |-> fs] :
      c \in {<<>>, <<"c">>}, fs \in {<<>>} \cup {<<f>> : f \in LegacyFiles} }
  \cup { [content |-> <<"c">>] }

PageLists == UNION {[1..n -> LegacyPages] : n \in 0..MaxPages}

LegacySections ==
  LET bare == [id |-> <<"S", 0>>, title |-> <<"S">>]
      full == [id |-> <<"S", 0>>, title |-> <<"S">>, notes |-> <<"n">>,
               files |-> <<FileX>>]
  IN  {bare, full}
        \cup {Put(bare, "pages", ps) : ps \in PageLists}
        \cup {Put(full, "pages", ps) : ps \in PageLists}

LegacyDoc(sec) ==
  [course |-> [name |-> <<"P", "H", "Y">>, instructor |-> <<"Z">>,
               updated_at |-> timestamp(0)],
   modules |-> <<[id |-> <<"M", 0>>, title |-> <<"M", "o", "d">>,
                  sections |-> <<sec>>]>>,
   version |-> 1]

\* OldPath(4) exists but cannot be read
LegacyUploads ==
  [x \in {OldPath(1), OldPath(4)} |->
     IF x = OldPath(1) THEN <<"x">> ELSE None]

InitMigrate ==
  \E sec \in LegacySections :
    Rest0([file |-> OnDisk(json_dump(LegacyDoc(sec))),
           uploads |-> LegacyUploads], Student, <<>>)

NextMigrate ==
  \/ Rerun
  \/ Migrate \/ SidebarBackupRestore
  \/ SaveOpen \/ SaveDump
  \/ EndRun

SpecMigrate == InitMigrate /\ [][NextMigrate]_vars

\* ------------------------------------------------------------------------
\* Vocabulary of the properties
\* ------------------------------------------------------------------------
InRun == pc # "idle"
Saving == pc \in {"save_open", "save_write"}

\* the positions <<module, section>> of a document
SectionsOf(d) ==
  UNION {{<<i, j>> : j \in 1..Len(d.modules[i].sections)} :
           i \in 1..Len(d.modules)}

SectionAt(d, at) == d.modules[at[1]].sections[at[2]]

IsBlank(title) == \A i \in 1..Len(title) : title[i] = " "

HashOf(f) == IF "hash" \in DOMAIN f THEN f.hash ELSE None

NoTwoSameHash(files) ==
  \A i, j \in 1..Len(files) :
    (i # j /\ HashOf(files[i]) # None) => HashOf(files[i]) # HashOf(files[j])

\* the document a file holds, without the save stamp and in migrated shape
Content(f) ==
  LET strip(d) == [d EXCEPT !.course = Pop(@, "updated_at")]
  IN  IF ~f.exists THEN strip(DEFAULT_DB)
      ELSE IF json_valid(f.text)
           THEN strip(migrate_pages_to_section_files(json_load(f.text),
                                                     uploads).db)
           ELSE [unreadable |-> f.text]

\* ------------------------------------------------------------------------
\* C1: at every point of a save_db over a good document, the live document
\* file holds either that complete pre-save document or the complete new
\* document, never an empty or half-written one.
\* ------------------------------------------------------------------------
C1_LiveFileNeverHalfWritten ==
  (hist.active /\ hist.prev.exists /\ json_valid(hist.prev.text)) =>
    \/ file = hist.prev
    \/ file = OnDisk(json_dump(SaveTarget))

\* ------------------------------------------------------------------------
\* C2: load_db never raises: on an empty or syntactically invalid document
\* file it returns a default document.
\* ------------------------------------------------------------------------
C2_LoadNeverRaises == ~load_raised

\* ------------------------------------------------------------------------
\* C3: no two attachment records of a section carry the same content hash,
\* and an "Add files" batch answers "duplicate" exactly for the bytes whose
\* hash the section already holds (from before or from earlier in the
\* batch), appends one record and writes one file per "saved", and leaves
\* the earlier records as they were.
\* ------------------------------------------------------------------------
C3_DedupByContentHash ==
  /\ InRun =>
       \A at \in SectionsOf(db) :
         "files" \in DOMAIN SectionAt(db, at) =>
           NoTwoSameHash(SectionAt(db, at).files)
  /\ ev.op = "add_files" =>
       LET after == db.modules[ev.mi].sections[ev.si].files
           n == Len(ev.before)
           known(k) ==
             \/ \E i \in 1..n :
                  HashOf(ev.before[i]) = file_sha256(ev.batch[k].data)
             \/ \E e \in 1..(k - 1) : ev.batch[e].data = ev.batch[k].data
           saved == {k \in 1..Len(ev.batch) : ev.statuses[k] = "saved"}
       IN  /\ \A k \in 1..Len(ev.batch) :
                ev.statuses[k] = (IF known(k) THEN "duplicate" ELSE "saved")
           /\ Len(after) = n + Cardinality(saved)
           /\ SubSeq(after, 1, n) = ev.before
           /\ Cardinality(DOMAIN uploads)
                = Cardinality(DOMAIN ev.disk) + Cardinality(saved)

C3_Witness ==
  /\ ev.op = "add_files"
  /\ ev.statuses = <<"saved", "duplicate">>
  /\ Len(db.modules[ev.mi].sections[ev.si].files) = Len(ev.before) + 1

AfterMigration == pc = "sidebar" \/ (Saving /\ ret = "sidebar")

C5_MigrationIdempotent ==
  AfterMigration =>
    LET again == migrate_pages_to_section_files(db, uploads)
    IN  again.db = db /\ ~again.changed

C5_Witness ==
  /\ pc = "save_open"
  /\ ret = "sidebar"
  /\ \E at \in SectionsOf(db) :
       /\ Len(SectionAt(db, at).files) >= 2
       /\ \E i \in 1..Len(SectionAt(db, at).notes) :
            SectionAt(db, at).notes[i] = "#"

\* ------------------------------------------------------------------------
\* C6: unless Instructor mode is selected and the passcode entered is the
\* configured one, no save replaces the content of the persisted document
\* (course info, modules, sections, notes, attachment records).
\* ------------------------------------------------------------------------
C6_StudentsReadOnly ==
  (hist.active /\ ~can_edit) =>
    Content(OnDisk(json_dump(SaveTarget))) = Content(hist.prev)

\* ------------------------------------------------------------------------
\* C7: sidebar_backup_restore starts the save of an uploaded backup only
\* when the stream parses and holds both the modules and the course key; a
\* stream that does not parse or lacks a key is answered with a message and
\* the document file is left as it was.
\* ------------------------------------------------------------------------
Parses(u) == json_valid(Backups[u])
HasBothKeys(u) == {"modules", "course"} \subseteq DOMAIN json_load(Backups[u])

C7_ImportValidated ==
  [][(pc = "sidebar" /\ restore_uploader # 0) =>
       /\ (pc' = "save_open") =>
            Parses(restore_uploader) /\ HasBothKeys(restore_uploader)
       /\ (~Parses(restore_uploader) \/ ~HasBothKeys(restore_uploader)) =>
            /\ file' = file
            /\ msg' \in {"failed", "invalid"}
            /\ pc' = "tools"
    ]_vars

C7_Witness ==
  /\ pc = "tools"
  /\ restore_uploader # 0
  /\ msg = "invalid"
  /\ file.exists

\* ------------------------------------------------------------------------
\* C8: no module or section of the document has a blank title, and a rename
\* with an empty or whitespace-only replacement leaves the title as it was.
\* ------------------------------------------------------------------------
C8_NoBlankTitle ==
  /\ InRun =>
       /\ \A i \in 1..Len(db.modules) : ~IsBlank(db.modules[i].title)
       /\ \A at \in SectionsOf(db) : ~IsBlank(SectionAt(db, at).title)
  /\ (ev.op = "rename_module" /\ IsBlank(ev.input)) =>
       db.modules[ev.mi].title = ev.before
  /\ (ev.op = "rename_section" /\ IsBlank(ev.input)) =>
       db.modules[ev.mi].sections[ev.si].title = ev.before

C8_Witness ==
  /\ ev.op = "rename_section"
  /\ ev.input = <<" ">>
  /\ pc = "save_write"

\* ------------------------------------------------------------------------
\* C9: pressing the remove button of an attachment removes exactly that
\* record, keeps the others in their order and goes on to save the document,
\* whether the file was deleted, was missing or could not be deleted.
\* ------------------------------------------------------------------------
C9_RemoveExactlyThatRecord ==
  ev.op = "remove_file" =>
    LET after == db.modules[ev.mi].sections[ev.si].files
        n == Len(ev.before)
    IN  /\ Saving
        /\ Len(after) = n - 1
        /\ \A i \in 1..(n - 1) :
             after[i] = ev.before[IF i < ev.pressed THEN i ELSE i + 1]

C9_Witness ==
  /\ ev.op = "remove_file"
  /\ ev.removal = "error"
  /\ ev.pressed = 1
  /\ Len(ev.before) >= 2
  /\ pc = "save_write"

\* ------------------------------------------------------------------------
\* C10: after load_db and the migration, no section of the document carries
\* the legacy pages field, whatever the length of its page list.
\* ------------------------------------------------------------------------
C10_NoLegacyField ==
  AfterMigration =>
    \A at \in SectionsOf(db) : "pages" \notin DOMAIN SectionAt(db, at)

\* ------------------------------------------------------------------------
\* C11: once a handler of edit_tools has saved the document, every later run
\* ends with that document still in DB_PATH (the save stamp apart), until
\* another handler saves or a backup is newly submitted to the uploader; a
\* backup the uploader still holds from an earlier import does not undo it.
\* ------------------------------------------------------------------------
C11_SavedEditsSurviveReruns ==
  (pc = "idle" /\ edited.exists /\ file.exists /\ json_valid(file.text)) =>
    Content(file) = Content(edited)

====
